---------------------------- MODULE Spec2Model ----------------------------
(***************************************************************************)
(* Model of the patent assistant: the keyword search endpoint of           *)
(* db_api_server_agent.py (search_by_keywords) and the dual-mode question   *)
(* pipeline of app_patent_assistant.py (patent-number detection, direct     *)
(* lookup, keyword extraction and research synthesis).                      *)
(*                                                                         *)
(* Strings the code inspects character by character (the question, the     *)
(* completion holding the keywords) are sequences of one-character strings. *)
(***************************************************************************)
EXTENDS Integers, Sequences, FiniteSets, TLC

VARIABLES
    available_dbs,        \* server: ids of the indexes loaded at start-up
    rpc,                  \* server: per request, the position in search_by_keywords
    request,              \* server: per request, the SearchRequest body
    kwi,                  \* server: per request, how many keywords the loop has done
    all_retrieved_docs,   \* server: per request, the local of line 57
    unique_doc_sources,   \* server: per request, the local of line 58
    retrieved_docs,       \* server: per request, the local of line 62 (or Unbound)
    response,             \* server: per request, the HTTP reply
    invocations,          \* server: per request, the retriever calls made so far
    messages,             \* app: st.session_state.messages
    apc,                  \* app: the position of the script in the current run
    user_question,        \* app: the question typed into st.chat_input
    patent_number,        \* app: patent_match.group(1), or None
    keyword_list,         \* app: the keywords parsed from the completion
    retrieved_data,       \* app: the documents of the search response
    shown,                \* app: the final widget of the assistant block
    calls,                \* app: the external calls made for the current question
    detections,           \* app: how often the current question was classified
    current_model         \* app: st.session_state.current_model

svars == <<available_dbs, rpc, request, kwi, all_retrieved_docs,
           unique_doc_sources, retrieved_docs, response, invocations>>

avars == <<messages, apc, user_question, patent_number, keyword_list,
           retrieved_data, shown, calls, detections, current_model>>

vars == <<svars, avars>>

-----------------------------------------------------------------------------
(* Bounds of the model.                                                    *)

MaxKeywords == 2

\* Questions asked in one session.
MaxQuestions == 2

\* Pieces a generated question is made of.
MaxTokens == 5

-----------------------------------------------------------------------------
(* Generic helpers.                                                        *)

None == "None"
Unbound == <<[unbound |-> TRUE]>>

Min(a, b) == IF a < b THEN a ELSE b

\* All sequences over S of length at most n.
SeqsUpTo(S, n) == UNION {[1..m -> S] : m \in 0..n}

Range(s) == {s[i] : i \in 1..Len(s)}

-----------------------------------------------------------------------------
(* The document index (the FAISS store behind available_dbs).              *)

\* db_folders: the index ids the server tries to load.
db_folders == {"core_patents"}

\* Index ids a request may name: the server's own, and the one the app sends.
DbIds == {"core_patents", "3d_dram"}

\* A stored chunk: its text, and the path of the file it was cut from.
Doc(dir, base, content) ==
    [page_content |-> content, metadata |-> [source |-> dir \o <<"/">> \o base]]

A1 == Doc(<<"x">>, <<"a">>, <<"c", "a">>)
B1 == Doc(<<"x">>, <<"b">>, <<"c", "b">>)
C1 == Doc(<<"x">>, <<"c">>, <<"c", "1">>)
C2 == Doc(<<"x">>, <<"c">>, <<"c", "2">>)
C3 == Doc(<<"x">>, <<"c">>, <<"c", "3">>)
D1 == Doc(<<"y">>, <<"a">>, <<"c", "a">>)

\* Queries the index is asked.
KwDram == <<"d", "r", "a", "m">>
KwVia == <<"v", "i", "a">>
KwNone == <<"x">>
KwNumber == <<"U", "S", "1", "2", "3", "4", "5", "A", "1">>

Keywords == {KwDram, KwVia, KwNone}

\* The ranked chunks the similarity search finds for a query, best first.
Ranking(keyword) ==
    CASE keyword = KwDram   -> <<A1, B1, C1>>
      [] keyword = KwVia    -> <<C2, D1, B1, C3>>
      [] keyword = KwNumber -> <<B1, A1>>
      [] OTHER              -> <<>>

\* Mutant: the retriever built without search_kwargs, so k is ignored.
RetrieverInvokeIgnoringK(keyword, k) == Ranking(keyword)

\* retriever.invoke(keyword) with search_kwargs {'k': k}: the k best chunks.
RetrieverInvoke(keyword, k) == SubSeq(Ranking(keyword), 1, Min(k, Len(Ranking(keyword))))

\* dict.get: the value, or None for a missing key.
MetadataGet(metadata, key) ==
    IF key \in DOMAIN metadata THEN metadata[key] ELSE None

-----------------------------------------------------------------------------
(* search_by_keywords: each request runs it with locals of its own.        *)

Requests == {"r1", "r2"}

\* k_per_keyword values a caller sends: 1 (direct lookup), 2, and the default.
DefaultK == 5
KValues == {1, 2, DefaultK}

NoRequest == [db_id |-> None, keywords |-> <<>>, k_per_keyword |-> 0]
NoResponse == [status_code |-> 0]

SearchRequest(db_id, keywords, k) ==
    [db_id |-> db_id, keywords |-> keywords, k_per_keyword |-> k]

HTTPException(code, detail) == [status_code |-> code, detail |-> detail]

Ok(documents) == [status_code |-> 200, documents |-> documents]

\* Lines 64-68: merge one result list into the accumulator and the seen set.
RECURSIVE MergeDocs(_, _, _)
MergeDocs(docs, acc, seen) ==
    IF docs = <<>> THEN [acc |-> acc, seen |-> seen]
    ELSE LET doc == Head(docs)
             source == MetadataGet(doc.metadata, "source")
         IN IF source \notin seen
            THEN MergeDocs(Tail(docs), Append(acc, doc), seen \cup {source})
            ELSE MergeDocs(Tail(docs), acc, seen)

\* Mutant: the result list kept in one module-level variable that every
\* request writes, so a response is built from whichever request wrote it.
RetrievedDocsShared(r) ==
    LET bound == {q \in Requests : retrieved_docs[q] # Unbound}
    IN IF bound = {} THEN Unbound
       ELSE retrieved_docs[CHOOSE q \in bound : \A o \in bound : kwi[q] <= kwi[o]]

\* Line 70: the list the response is built from.
ResultSource(r) == retrieved_docs[r]

\* Line 70: the comprehension turning documents into JSON objects.
ToResults(docs) ==
    [i \in 1..Len(docs) |->
        [page_content |-> docs[i].page_content, metadata |-> docs[i].metadata]]

SInit ==
    /\ available_dbs \in SUBSET db_folders
    /\ rpc = [r \in Requests |-> "idle"]
    /\ request = [r \in Requests |-> NoRequest]
    /\ kwi = [r \in Requests |-> 0]
    /\ all_retrieved_docs = [r \in Requests |-> <<>>]
    /\ unique_doc_sources = [r \in Requests |-> {}]
    /\ retrieved_docs = [r \in Requests |-> Unbound]
    /\ response = [r \in Requests |-> NoResponse]
    /\ invocations = [r \in Requests |-> <<>>]

\* Line 46: a POST /search_by_keywords arrives and is parsed into a SearchRequest.
Receive(r) ==
    /\ rpc[r] = "idle"
    /\ \E db_id \in DbIds, keywords \in SeqsUpTo(Keywords, MaxKeywords), k \in KValues :
          request' = [request EXCEPT ![r] = SearchRequest(db_id, keywords, k)]
    /\ rpc' = [rpc EXCEPT ![r] = "check"]
    /\ UNCHANGED <<available_dbs, kwi, all_retrieved_docs, unique_doc_sources,
                   retrieved_docs, response, invocations>>
    /\ UNCHANGED avars

\* Lines 51-52: the index is not loaded.
IndexNotFound(r) ==
    /\ rpc[r] = "check"
    /\ request[r].db_id \notin available_dbs
    /\ response' = [response EXCEPT ![r] = HTTPException(404, "db_not_found")]
    /\ rpc' = [rpc EXCEPT ![r] = "done"]
    /\ UNCHANGED <<available_dbs, request, kwi, all_retrieved_docs,
                   unique_doc_sources, retrieved_docs, invocations>>
    /\ UNCHANGED avars

\* Lines 54-58: the index is loaded; the locals are created.
EnterTry(r) ==
    /\ rpc[r] = "check"
    /\ request[r].db_id \in available_dbs
    /\ all_retrieved_docs' = [all_retrieved_docs EXCEPT ![r] = <<>>]
    /\ unique_doc_sources' = [unique_doc_sources EXCEPT ![r] = {}]
    /\ rpc' = [rpc EXCEPT ![r] = "loop"]
    /\ UNCHANGED <<available_dbs, request, kwi, retrieved_docs, response, invocations>>
    /\ UNCHANGED avars

\* Mutant: the keywords are taken from the end of the list.
SearchKeywordBackwards(r) ==
    /\ rpc[r] = "loop"
    /\ kwi[r] < Len(request[r].keywords)
    /\ LET keyword == request[r].keywords[Len(request[r].keywords) - kwi[r]]
           docs == RetrieverInvoke(keyword, request[r].k_per_keyword)
           merged == MergeDocs(docs, all_retrieved_docs[r], unique_doc_sources[r])
       IN /\ retrieved_docs' = [retrieved_docs EXCEPT ![r] = docs]
          /\ all_retrieved_docs' = [all_retrieved_docs EXCEPT ![r] = merged.acc]
          /\ unique_doc_sources' = [unique_doc_sources EXCEPT ![r] = merged.seen]
          /\ invocations' = [invocations EXCEPT ![r] = Append(@, keyword)]
    /\ kwi' = [kwi EXCEPT ![r] = @ + 1]
    /\ UNCHANGED <<available_dbs, rpc, request, response>>
    /\ UNCHANGED avars

\* Mutant: the seen-set is one module-level set that every request fills.
SearchKeywordSharedSeen(r) ==
    /\ rpc[r] = "loop"
    /\ kwi[r] < Len(request[r].keywords)
    /\ LET keyword == request[r].keywords[kwi[r] + 1]
           docs == RetrieverInvoke(keyword, request[r].k_per_keyword)
           seen == UNION {unique_doc_sources[q] : q \in Requests}
           merged == MergeDocs(docs, all_retrieved_docs[r], seen)
       IN /\ retrieved_docs' = [retrieved_docs EXCEPT ![r] = docs]
          /\ all_retrieved_docs' = [all_retrieved_docs EXCEPT ![r] = merged.acc]
          /\ unique_doc_sources' = [unique_doc_sources EXCEPT ![r] = merged.seen]
          /\ invocations' = [invocations EXCEPT ![r] = Append(@, keyword)]
    /\ kwi' = [kwi EXCEPT ![r] = @ + 1]
    /\ UNCHANGED <<available_dbs, rpc, request, response>>
    /\ UNCHANGED avars

\* Lines 60-68: one iteration of the keyword loop, the search succeeding.
SearchKeyword(r) ==
    /\ rpc[r] = "loop"
    /\ kwi[r] < Len(request[r].keywords)
    /\ LET keyword == request[r].keywords[kwi[r] + 1]
           docs == RetrieverInvoke(keyword, request[r].k_per_keyword)
           merged == MergeDocs(docs, all_retrieved_docs[r], unique_doc_sources[r])
       IN /\ retrieved_docs' = [retrieved_docs EXCEPT ![r] = docs]
          /\ all_retrieved_docs' = [all_retrieved_docs EXCEPT ![r] = merged.acc]
          /\ unique_doc_sources' = [unique_doc_sources EXCEPT ![r] = merged.seen]
          /\ invocations' = [invocations EXCEPT ![r] = Append(@, keyword)]
    /\ kwi' = [kwi EXCEPT ![r] = @ + 1]
    /\ UNCHANGED <<available_dbs, rpc, request, response>>
    /\ UNCHANGED avars

\* Mutant: the except clause answers with what was accumulated so far.
SearchKeywordRaisesPartial(r) ==
    /\ rpc[r] = "loop"
    /\ kwi[r] < Len(request[r].keywords)
    /\ invocations' = [invocations EXCEPT ![r] = Append(@, request[r].keywords[kwi[r] + 1])]
    /\ response' = [response EXCEPT ![r] = Ok(ToResults(all_retrieved_docs[r]))]
    /\ rpc' = [rpc EXCEPT ![r] = "done"]
    /\ UNCHANGED <<available_dbs, request, kwi, all_retrieved_docs,
                   unique_doc_sources, retrieved_docs>>
    /\ UNCHANGED avars

\* Lines 62, 74-75: the similarity search raises; the handler answers 500.
SearchKeywordRaises(r) ==
    /\ rpc[r] = "loop"
    /\ kwi[r] < Len(request[r].keywords)
    /\ invocations' = [invocations EXCEPT ![r] = Append(@, request[r].keywords[kwi[r] + 1])]
    /\ response' = [response EXCEPT ![r] = HTTPException(500, "retriever_error")]
    /\ rpc' = [rpc EXCEPT ![r] = "done"]
    /\ UNCHANGED <<available_dbs, request, kwi, all_retrieved_docs,
                   unique_doc_sources, retrieved_docs>>
    /\ UNCHANGED avars

\* Lines 70-75: the loop is over; the response is built from ResultSource.
\* Reading a local that was never bound raises NameError inside the try.
BuildResults(r) ==
    /\ rpc[r] = "loop"
    /\ kwi[r] = Len(request[r].keywords)
    /\ response' = [response EXCEPT ![r] =
                      IF ResultSource(r) = Unbound
                      THEN HTTPException(500, "NameError")
                      ELSE Ok(ToResults(ResultSource(r)))]
    /\ rpc' = [rpc EXCEPT ![r] = "done"]
    /\ UNCHANGED <<available_dbs, request, kwi, all_retrieved_docs,
                   unique_doc_sources, retrieved_docs, invocations>>
    /\ UNCHANGED avars

SNext ==
    \E r \in Requests :
        \/ Receive(r)
        \/ IndexNotFound(r)
        \/ EnterTry(r)
        \/ SearchKeyword(r)
        \/ SearchKeywordRaises(r)
        \/ BuildResults(r)

-----------------------------------------------------------------------------
(* Characters and strings (app_patent_assistant.py works on str).          *)

LowerCase == <<"a","b","c","d","e","f","g","h","i","j","k","l","m",
               "n","o","p","q","r","s","t","u","v","w","x","y","z">>
UpperCase == <<"A","B","C","D","E","F","G","H","I","J","K","L","M",
               "N","O","P","Q","R","S","T","U","V","W","X","Y","Z">>

\* re.IGNORECASE: a character is compared by its upper-case form.
FoldCase(c) ==
    IF \E i \in 1..Len(LowerCase) : LowerCase[i] = c
    THEN UpperCase[CHOOSE i \in 1..Len(LowerCase) : LowerCase[i] = c]
    ELSE c

\* \d
IsDigit(c) == c \in {"0","1","2","3","4","5","6","7","8","9"}

\* \s, and what str.strip() removes
IsSpace(c) == c \in {" ", "\t", "\n"}

\* [\s.-]
IsSeparator(c) == IsSpace(c) \/ c \in {".", "-"}

\* [A-Z\d] under re.IGNORECASE
IsKindChar(c) == IsDigit(c) \/ FoldCase(c) \in Range(UpperCase)

\* \d+ : the longest run of digits that starts at position p.
RECURSIVE DigitRun(_, _)
DigitRun(s, p) ==
    IF p <= Len(s) /\ IsDigit(s[p]) THEN 1 + DigitRun(s, p + 1) ELSE 0

\* [A-Z\d] repeated: the longest run of letters and digits that starts at position p.
RECURSIVE KindRun(_, _)
KindRun(s, p) ==
    IF p <= Len(s) /\ IsKindChar(s[p]) THEN 1 + KindRun(s, p + 1) ELSE 0

\* The first non-zero entry of a sequence of numbers, or 0.
RECURSIVE FirstNonZero(_)
FirstNonZero(xs) ==
    IF xs = <<>> THEN 0
    ELSE IF Head(xs) # 0 THEN Head(xs) ELSE FirstNonZero(Tail(xs))

-----------------------------------------------------------------------------
(* PATENT_NUMBER_REGEX (line 86), compiled with re.IGNORECASE: one group    *)
(* made of the pieces  (?:US|KR|CN|JP|EP)  [\s.-]?  \d{4,}  [\s.-]?  \d+   *)
(* and a final  [A-Z\d]  repeated zero or more times.                       *)
(* A matcher returns the position after the match, or 0 when it fails, and *)
(* tries the alternatives in the order the backtracking engine does.       *)

Prefixes == {<<"U","S">>, <<"K","R">>, <<"C","N">>, <<"J","P">>, <<"E","P">>}

\* Mutant: the pattern compiled without re.IGNORECASE.
PrefixAtCaseSensitive(s, i) ==
    /\ i >= 1 /\ i + 1 <= Len(s)
    /\ <<s[i], s[i + 1]>> \in Prefixes

\* (?:US|KR|CN|JP|EP) at position i
PrefixAt(s, i) ==
    /\ i >= 1 /\ i + 1 <= Len(s)
    /\ <<FoldCase(s[i]), FoldCase(s[i + 1])>> \in Prefixes

\* [\s.-]? : greedy, so the separator is tried taken first, then skipped.
OptionalSeparator(s, p) ==
    IF p <= Len(s) /\ IsSeparator(s[p]) THEN <<p + 1, p>> ELSE <<p>>

\* The last two pieces at position q: both greedy, and nothing follows them.
MatchTail(s, q) ==
    LET m == DigitRun(s, q)
    IN IF m >= 1 THEN q + m + KindRun(s, q + m) ELSE 0

\* The pattern from the second [\s.-]? on, at position q.
MatchSecondGroup(s, q) ==
    LET opts == OptionalSeparator(s, q)
    IN FirstNonZero([j \in 1..Len(opts) |-> MatchTail(s, opts[j])])

\* The least number of digits \d{4,} takes.
MinDigits == 4

\* The pattern from \d{4,} on, at position p: \d{4,} is greedy and gives
\* digits back one at a time, never fewer than MinDigits.
MatchDigits(s, p) ==
    LET run == DigitRun(s, p)
    IN IF run < MinDigits THEN 0
       ELSE FirstNonZero([j \in 1..(run - MinDigits + 1) |->
                              MatchSecondGroup(s, p + run - j + 1)])

\* The whole pattern anchored at position i.
MatchAt(s, i) ==
    IF ~PrefixAt(s, i) THEN 0
    ELSE LET opts == OptionalSeparator(s, i + 2)
         IN FirstNonZero([j \in 1..Len(opts) |-> MatchDigits(s, opts[j])])

\* Where the scan of PATENT_NUMBER_REGEX.search stops: the leftmost position
\* at which the pattern matches.
ScanStart(s) == CHOOSE i \in 1..Len(s) :
                    /\ MatchAt(s, i) # 0
                    /\ \A j \in 1..(i - 1) : MatchAt(s, j) = 0

\* PATENT_NUMBER_REGEX.search(s), then group(1): the matched text, or None.
PatentNumberSearch(s) ==
    IF \E i \in 1..Len(s) : MatchAt(s, i) # 0
    THEN LET i == ScanStart(s) IN SubSeq(s, i, MatchAt(s, i) - 1)
    ELSE None

-----------------------------------------------------------------------------
(* Keyword parsing: [k.strip() for k in text.split(',') if k.strip()]      *)

\* str.split(','): the pieces between the commas, empty ones included.
RECURSIVE Split(_, _)
Split(s, piece) ==
    IF s = <<>> THEN <<piece>>
    ELSE IF Head(s) = "," THEN <<piece>> \o Split(Tail(s), <<>>)
         ELSE Split(Tail(s), Append(piece, Head(s)))

RECURSIVE LStrip(_)
LStrip(s) == IF s # <<>> /\ IsSpace(Head(s)) THEN LStrip(Tail(s)) ELSE s

RECURSIVE RStrip(_)
RStrip(s) ==
    IF s # <<>> /\ IsSpace(s[Len(s)]) THEN RStrip(SubSeq(s, 1, Len(s) - 1)) ELSE s

\* str.strip()
Strip(s) == RStrip(LStrip(s))

\* The filter of the comprehension: an empty string is falsy.
KeepKeyword(k) == Strip(k) # <<>>

RECURSIVE StripNonEmpty(_)
StripNonEmpty(pieces) ==
    IF pieces = <<>> THEN <<>>
    ELSE IF KeepKeyword(Head(pieces))
         THEN <<Strip(Head(pieces))>> \o StripNonEmpty(Tail(pieces))
         ELSE StripNonEmpty(Tail(pieces))

ParseKeywords(extracted_keywords) == StripNonEmpty(Split(extracted_keywords, <<>>))

-----------------------------------------------------------------------------
(* The search request as the app builds it and the server reads it.        *)

\* db_options: the index id the app sends.
selected_db_id == "3d_dram"

\* Mutant: the direct-lookup payload without its cap.
DirectLookupPayloadNoCap(number) ==
    [db_id |-> selected_db_id, keywords |-> <<number>>]

\* Line 122: the direct-lookup payload.
DirectLookupPayload(number) ==
    [db_id |-> selected_db_id, keywords |-> <<number>>, k_per_keyword |-> 1]

\* Line 147: the research payload; it carries no k_per_keyword.
ResearchPayload(keywords) == [db_id |-> selected_db_id, keywords |-> keywords]

\* SearchRequest(BaseModel): a missing k_per_keyword takes the default.
ParseSearchRequest(payload) ==
    SearchRequest(payload.db_id, payload.keywords,
                  IF "k_per_keyword" \in DOMAIN payload
                  THEN payload.k_per_keyword ELSE DefaultK)

\* response.json().get('documents', [])
GetDocuments(body) == IF "documents" \in DOMAIN body THEN body.documents ELSE <<>>

\* Mutant: the summary made from the last document.
SummaryContextLast(data) == data[Len(data)].page_content

\* Line 131: the text the summary is made from.
SummaryContext(data) == data[1].page_content

\* os.path.basename: what follows the last slash of the path.
RECURSIVE Basename(_)
Basename(path) ==
    IF \E i \in 1..Len(path) : path[i] = "/"
    THEN Basename(Tail(path))
    ELSE path

\* doc['metadata'].get('source', 'N/A')
SourceOrNA(metadata) ==
    IF "source" \in DOMAIN metadata THEN metadata.source ELSE <<"N", "/", "A">>

\* The literals of the f-string and of the join of line 158.
SourceOpen == <<"-", "-", "-", " ", "S", "o", "u", "r", "c", "e", ":", " ">>
SourceClose == <<" ", "-", "-", "-", "\n">>
BlockJoin == <<"\n", "\n">>

\* f"--- Source: {basename} ---\n{page_content}"
FormatBlock(doc) ==
    SourceOpen \o Basename(SourceOrNA(doc.metadata)) \o SourceClose \o doc.page_content

\* Mutant: the blocks joined by a single line break.
RECURSIVE format_docs_one_newline(_)
format_docs_one_newline(docs) ==
    IF docs = <<>> THEN <<>>
    ELSE IF Tail(docs) = <<>> THEN FormatBlock(Head(docs))
         ELSE FormatBlock(Head(docs)) \o <<"\n">> \o format_docs_one_newline(Tail(docs))

\* Line 158: one block per document, the blocks joined by a blank line.
RECURSIVE format_docs(_)
format_docs(docs) ==
    IF docs = <<>> THEN <<>>
    ELSE IF Tail(docs) = <<>> THEN FormatBlock(Head(docs))
         ELSE FormatBlock(Head(docs)) \o BlockJoin \o format_docs(Tail(docs))

-----------------------------------------------------------------------------
(* The question pipeline of app_patent_assistant.py (lines 102-171).       *)

\* Questions a user types.
Questions == {
    <<"U","S","1","2","3","4","5","A","1">>,
    <<"s","e","e"," ","k","r","-","1","2","3","4","-","5">>,
    <<"U","S","1","2","3","4">>,
    <<"d","r","a","m">> }

\* Completions the model gives for the keyword prompt.
KeywordCompletions == {
    <<>>,
    <<" ", ",", " ">>,
    <<"d", "r", "a", "m", ",", "v", "i", "a">>,
    <<" ", "d", "r", "a", "m", " ", ",", ",", "x", " ">>,
    <<"x">> }

\* Bodies the search service answers with.
SearchBodies == {
    [documents |-> <<>>],
    [documents |-> ToResults(<<A1>>)],
    [documents |-> ToResults(<<B1, A1, D1>>)],
    [detail |-> "no documents key"] }

\* What requests.post, raise_for_status and response.json raise.
SearchErrors == {"ConnectionError", "HTTPError"}

\* What a chain's invoke raises.
CompletionErrors == {"CompletionError"}

\* The completion for the summary and for the final answer.
Answers == {"answer"}

Turn(role, content) == [role |-> role, content |-> content]

\* An external call as the session saw it: what was sent, what came back.
SearchCall(payload, result) ==
    [service |-> "search", payload |-> payload, result |-> result]
CompletionCall(template, input, result) ==
    [service |-> "completion", template |-> template, input |-> input,
     result |-> result]

Returned(value) == [returned |-> value]
Raised(e) == [raised |-> e]

NothingShown == [widget |-> None]
\* Line 128
NotFound(number) == [widget |-> "error", template |-> "patent_not_found", arg |-> number]
\* Line 153
NoDocuments == [widget |-> "warning", template |-> "no_documents"]
\* Lines 134, 167
Markdown(text) == [widget |-> "markdown", arg |-> text]
\* Line 171
AgentError(e) == [widget |-> "error", template |-> "agent_error", arg |-> e]

\* The models of the sidebar's radio (line 69).
Models == {"gemini-2.5-pro", "gemini-2.5-flash"}

AInit ==
    /\ current_model = "gemini-2.5-pro"     \* st.radio starts on its first option
    /\ messages = <<>>
    /\ apc = "idle"
    /\ user_question = <<>>
    /\ patent_number = None
    /\ keyword_list = <<>>
    /\ retrieved_data = <<>>
    /\ shown = NothingShown
    /\ calls = <<>>
    /\ detections = 0

UserTurns == Len(SelectSeq(messages, LAMBDA m : m.role = "user"))

\* Lines 102-105: a question is submitted and recorded as a user turn.
Ask ==
    /\ apc = "idle"
    /\ UserTurns < MaxQuestions
    /\ \E q \in Questions : user_question' = q
    /\ messages' = Append(messages, Turn("user", user_question'))
    /\ apc' = "classify"
    /\ patent_number' = None
    /\ keyword_list' = <<>>
    /\ retrieved_data' = <<>>
    /\ shown' = NothingShown
    /\ calls' = <<>>
    /\ detections' = 0
    /\ UNCHANGED <<svars, current_model>>

\* A rerun of the script with no question submitted: nothing of the last run
\* is left but the session state.
Rerun ==
    /\ apc' = "idle"
    /\ user_question' = <<>>
    /\ patent_number' = None
    /\ keyword_list' = <<>>
    /\ retrieved_data' = <<>>
    /\ shown' = NothingShown
    /\ calls' = <<>>
    /\ detections' = 0

\* Lines 80-82: the reset button empties the history and reruns the script.
ClearHistory ==
    /\ apc = "idle"
    /\ messages' = <<>>
    /\ Rerun
    /\ UNCHANGED <<svars, current_model>>

\* Lines 94-96: another model is selected; the rerun empties the history.
ChangeModel ==
    /\ apc = "idle"
    /\ \E selected_model \in Models :
          /\ selected_model # current_model
          /\ current_model' = selected_model
    /\ messages' = <<>>
    /\ Rerun
    /\ UNCHANGED svars

\* Lines 112-117 and 138: the question is classified.
Classify ==
    /\ apc = "classify"
    /\ patent_number' = PatentNumberSearch(user_question)
    /\ detections' = detections + 1
    /\ apc' = IF patent_number' # None THEN "direct_search" ELSE "extract"
    /\ UNCHANGED <<messages, user_question, keyword_list, retrieved_data, shown, calls>>
    /\ UNCHANGED <<svars, current_model>>

\* Mutant: the exception is reported and the failed step is tried again.
FailAndRetry(e) ==
    /\ shown' = AgentError(e)
    /\ apc' = apc

\* Lines 170-171: an exception ends the run with its message shown.
Fail(e) ==
    /\ shown' = AgentError(e)
    /\ apc' = "idle"

\* Lines 119-129: the direct-lookup search is answered.
DirectSearch ==
    /\ apc = "direct_search"
    /\ \E body \in SearchBodies :
          /\ calls' = Append(calls, SearchCall(DirectLookupPayload(patent_number),
                                              Returned(body)))
          /\ retrieved_data' = GetDocuments(body)
          /\ IF retrieved_data' = <<>>
             THEN shown' = NotFound(patent_number) /\ apc' = "idle"
             ELSE shown' = shown /\ apc' = "summarize"
    /\ UNCHANGED <<messages, user_question, patent_number, keyword_list, detections>>
    /\ UNCHANGED <<svars, current_model>>

\* Lines 123-125, 170-171: the direct-lookup search raises.
DirectSearchRaises ==
    /\ apc = "direct_search"
    /\ \E e \in SearchErrors :
          /\ calls' = Append(calls, SearchCall(DirectLookupPayload(patent_number),
                                              Raised(e)))
          /\ Fail(e)
    /\ UNCHANGED <<messages, user_question, patent_number, keyword_list,
                   retrieved_data, detections>>
    /\ UNCHANGED <<svars, current_model>>

\* Mutant: the summary is shown but not recorded in the history.
SummarizeUnrecorded ==
    /\ apc = "summarize"
    /\ \E final_answer \in Answers :
          /\ calls' = Append(calls, CompletionCall("SINGLE_DOC_SUMMARY_PROMPT",
                                 [context |-> SummaryContext(retrieved_data)],
                                 Returned(final_answer)))
          /\ shown' = Markdown(final_answer)
    /\ apc' = "idle"
    /\ UNCHANGED <<messages, user_question, patent_number, keyword_list,
                   retrieved_data, detections>>
    /\ UNCHANGED <<svars, current_model>>

\* Lines 130-135: the first document is summarised and the answer recorded.
Summarize ==
    /\ apc = "summarize"
    /\ \E final_answer \in Answers :
          /\ calls' = Append(calls, CompletionCall("SINGLE_DOC_SUMMARY_PROMPT",
                                 [context |-> SummaryContext(retrieved_data)],
                                 Returned(final_answer)))
          /\ shown' = Markdown(final_answer)
          /\ messages' = Append(messages, Turn("assistant", final_answer))
    /\ apc' = "idle"
    /\ UNCHANGED <<user_question, patent_number, keyword_list, retrieved_data, detections>>
    /\ UNCHANGED <<svars, current_model>>

\* Lines 131-133, 170-171: the summary raises.
SummarizeRaises ==
    /\ apc = "summarize"
    /\ \E e \in CompletionErrors :
          /\ calls' = Append(calls, CompletionCall("SINGLE_DOC_SUMMARY_PROMPT",
                                 [context |-> SummaryContext(retrieved_data)],
                                 Raised(e)))
          /\ Fail(e)
    /\ UNCHANGED <<messages, user_question, patent_number, keyword_list,
                   retrieved_data, detections>>
    /\ UNCHANGED <<svars, current_model>>

\* Mutant: the keyword chain is given the conversation so far with the question.
ExtractWithHistory ==
    /\ apc = "extract"
    /\ \E extracted_keywords \in KeywordCompletions :
          /\ calls' = Append(calls, CompletionCall("KEYWORD_EXTRACTION_PROMPT",
                                 [question |-> user_question, history |-> messages],
                                 Returned(extracted_keywords)))
          /\ keyword_list' = ParseKeywords(extracted_keywords)
    /\ apc' = "research_search"
    /\ UNCHANGED <<messages, user_question, patent_number, retrieved_data, shown, detections>>
    /\ UNCHANGED <<svars, current_model>>

\* Lines 139-143: the keywords are extracted from the completion.
Extract ==
    /\ apc = "extract"
    /\ \E extracted_keywords \in KeywordCompletions :
          /\ calls' = Append(calls, CompletionCall("KEYWORD_EXTRACTION_PROMPT",
                                 [question |-> user_question],
                                 Returned(extracted_keywords)))
          /\ keyword_list' = ParseKeywords(extracted_keywords)
    /\ apc' = "research_search"
    /\ UNCHANGED <<messages, user_question, patent_number, retrieved_data, shown, detections>>
    /\ UNCHANGED <<svars, current_model>>

\* Lines 140-141, 170-171: the keyword completion raises.
ExtractRaises ==
    /\ apc = "extract"
    /\ \E e \in CompletionErrors :
          /\ calls' = Append(calls, CompletionCall("KEYWORD_EXTRACTION_PROMPT",
                                 [question |-> user_question], Raised(e)))
          /\ Fail(e)
    /\ UNCHANGED <<messages, user_question, patent_number, keyword_list,
                   retrieved_data, detections>>
    /\ UNCHANGED <<svars, current_model>>

\* Lines 145-155: the research search is answered.
ResearchSearch ==
    /\ apc = "research_search"
    /\ \E body \in SearchBodies :
          /\ calls' = Append(calls, SearchCall(ResearchPayload(keyword_list),
                                              Returned(body)))
          /\ retrieved_data' = GetDocuments(body)
          /\ IF retrieved_data' = <<>>
             THEN shown' = NoDocuments /\ apc' = "idle"
             ELSE shown' = shown /\ apc' = "synthesize"
    /\ UNCHANGED <<messages, user_question, patent_number, keyword_list, detections>>
    /\ UNCHANGED <<svars, current_model>>

\* Lines 148-150, 170-171: the research search raises.
ResearchSearchRaises ==
    /\ apc = "research_search"
    /\ \E e \in SearchErrors :
          /\ calls' = Append(calls, SearchCall(ResearchPayload(keyword_list), Raised(e)))
          /\ Fail(e)
    /\ UNCHANGED <<messages, user_question, patent_number, keyword_list,
                   retrieved_data, detections>>
    /\ UNCHANGED <<svars, current_model>>

\* Lines 156-168: the context is assembled, the answer generated and recorded.
Synthesize ==
    /\ apc = "synthesize"
    /\ \E final_answer \in Answers :
          /\ calls' = Append(calls, CompletionCall("FINAL_ANSWER_PROMPT",
                                 [context |-> format_docs(retrieved_data),
                                  question |-> user_question],
                                 Returned(final_answer)))
          /\ shown' = Markdown(final_answer)
          /\ messages' = Append(messages, Turn("assistant", final_answer))
    /\ apc' = "idle"
    /\ UNCHANGED <<user_question, patent_number, keyword_list, retrieved_data, detections>>
    /\ UNCHANGED <<svars, current_model>>

\* Lines 160-166, 170-171: the final completion raises.
SynthesizeRaises ==
    /\ apc = "synthesize"
    /\ \E e \in CompletionErrors :
          /\ calls' = Append(calls, CompletionCall("FINAL_ANSWER_PROMPT",
                                 [context |-> format_docs(retrieved_data),
                                  question |-> user_question],
                                 Raised(e)))
          /\ Fail(e)
    /\ UNCHANGED <<messages, user_question, patent_number, keyword_list,
                   retrieved_data, detections>>
    /\ UNCHANGED <<svars, current_model>>

ANext ==
    \/ Ask
    \/ ClearHistory
    \/ ChangeModel
    \/ Classify
    \/ DirectSearch
    \/ DirectSearchRaises
    \/ Summarize
    \/ SummarizeRaises
    \/ Extract
    \/ ExtractRaises
    \/ ResearchSearch
    \/ ResearchSearchRaises
    \/ Synthesize
    \/ SynthesizeRaises

-----------------------------------------------------------------------------
(* The app and the search server together: the app's requests.post is     *)
(* served by search_by_keywords.                                           *)

\* The handler invocation that serves the session's request.
AppRequest == "r1"

\* db_folders of a deployment: the shipped entry and the id the app sends.
DeployedFolders == DbIds

\* The server as deployed.
PInit ==
    /\ available_dbs \in SUBSET DeployedFolders
    /\ rpc = [r \in Requests |-> "idle"]
    /\ request = [r \in Requests |-> NoRequest]
    /\ kwi = [r \in Requests |-> 0]
    /\ all_retrieved_docs = [r \in Requests |-> <<>>]
    /\ unique_doc_sources = [r \in Requests |-> {}]
    /\ retrieved_docs = [r \in Requests |-> Unbound]
    /\ response = [r \in Requests |-> NoResponse]
    /\ invocations = [r \in Requests |-> <<>>]

\* requests.post(..., json=payload): the payload reaches the handler (line 46).
Post(payload) ==
    /\ rpc[AppRequest] = "idle"
    /\ request' = [request EXCEPT ![AppRequest] = ParseSearchRequest(payload)]
    /\ rpc' = [rpc EXCEPT ![AppRequest] = "check"]
    /\ UNCHANGED <<available_dbs, kwi, all_retrieved_docs, unique_doc_sources,
                   retrieved_docs, response, invocations>>

\* The handler has returned or raised: its locals are gone.
HandlerReturns ==
    /\ rpc' = [rpc EXCEPT ![AppRequest] = "idle"]
    /\ request' = [request EXCEPT ![AppRequest] = NoRequest]
    /\ kwi' = [kwi EXCEPT ![AppRequest] = 0]
    /\ all_retrieved_docs' = [all_retrieved_docs EXCEPT ![AppRequest] = <<>>]
    /\ unique_doc_sources' = [unique_doc_sources EXCEPT ![AppRequest] = {}]
    /\ retrieved_docs' = [retrieved_docs EXCEPT ![AppRequest] = Unbound]
    /\ response' = [response EXCEPT ![AppRequest] = NoResponse]
    /\ invocations' = [invocations EXCEPT ![AppRequest] = <<>>]
    /\ UNCHANGED available_dbs

\* Line 73: the JSON body of a 200 response.
ResponseBody(resp) == [documents |-> resp.documents]

\* Lines 119-123: the direct-lookup request is sent.
PostDirect ==
    /\ apc = "direct_search"
    /\ Post(DirectLookupPayload(patent_number))
    /\ apc' = "direct_wait"
    /\ UNCHANGED <<messages, user_question, patent_number, keyword_list,
                   retrieved_data, shown, calls, detections, current_model>>

\* Lines 123-129: the server answers the direct lookup with 200.
DirectReply ==
    /\ apc = "direct_wait"
    /\ rpc[AppRequest] = "done"
    /\ response[AppRequest].status_code = 200
    /\ LET body == ResponseBody(response[AppRequest])
       IN /\ calls' = Append(calls, SearchCall(DirectLookupPayload(patent_number),
                                               Returned(body)))
          /\ retrieved_data' = GetDocuments(body)
          /\ IF retrieved_data' = <<>>
             THEN shown' = NotFound(patent_number) /\ apc' = "idle"
             ELSE shown' = shown /\ apc' = "summarize"
    /\ HandlerReturns
    /\ UNCHANGED <<messages, user_question, patent_number, keyword_list,
                   detections, current_model>>

\* Lines 124, 170-171: the server answers with an error status;
\* raise_for_status raises.
DirectReplyError ==
    /\ apc = "direct_wait"
    /\ rpc[AppRequest] = "done"
    /\ response[AppRequest].status_code # 200
    /\ calls' = Append(calls, SearchCall(DirectLookupPayload(patent_number),
                                         Raised("HTTPError")))
    /\ Fail("HTTPError")
    /\ HandlerReturns
    /\ UNCHANGED <<messages, user_question, patent_number, keyword_list,
                   retrieved_data, detections, current_model>>

\* Lines 145-148: the research request is sent.
PostResearch ==
    /\ apc = "research_search"
    /\ Post(ResearchPayload(keyword_list))
    /\ apc' = "research_wait"
    /\ UNCHANGED <<messages, user_question, patent_number, keyword_list,
                   retrieved_data, shown, calls, detections, current_model>>

\* Mutant: the empty-result branch shows its warning and falls through to
\* the synthesis.
ResearchReplyFallsThrough ==
    /\ apc = "research_wait"
    /\ rpc[AppRequest] = "done"
    /\ response[AppRequest].status_code = 200
    /\ LET body == ResponseBody(response[AppRequest])
       IN /\ calls' = Append(calls, SearchCall(ResearchPayload(keyword_list),
                                               Returned(body)))
          /\ retrieved_data' = GetDocuments(body)
          /\ shown' = IF retrieved_data' = <<>> THEN NoDocuments ELSE shown
          /\ apc' = "synthesize"
    /\ HandlerReturns
    /\ UNCHANGED <<messages, user_question, patent_number, keyword_list,
                   detections, current_model>>

\* Lines 148-155: the server answers the research request with 200.
ResearchReply ==
    /\ apc = "research_wait"
    /\ rpc[AppRequest] = "done"
    /\ response[AppRequest].status_code = 200
    /\ LET body == ResponseBody(response[AppRequest])
       IN /\ calls' = Append(calls, SearchCall(ResearchPayload(keyword_list),
                                               Returned(body)))
          /\ retrieved_data' = GetDocuments(body)
          /\ IF retrieved_data' = <<>>
             THEN shown' = NoDocuments /\ apc' = "idle"
             ELSE shown' = shown /\ apc' = "synthesize"
    /\ HandlerReturns
    /\ UNCHANGED <<messages, user_question, patent_number, keyword_list,
                   detections, current_model>>

\* Lines 149, 170-171: the server answers with an error status.
ResearchReplyError ==
    /\ apc = "research_wait"
    /\ rpc[AppRequest] = "done"
    /\ response[AppRequest].status_code # 200
    /\ calls' = Append(calls, SearchCall(ResearchPayload(keyword_list),
                                         Raised("HTTPError")))
    /\ Fail("HTTPError")
    /\ HandlerReturns
    /\ UNCHANGED <<messages, user_question, patent_number, keyword_list,
                   retrieved_data, detections, current_model>>

\* The handler's steps for the session's request.
Serve ==
    \/ IndexNotFound(AppRequest)
    \/ EnterTry(AppRequest)
    \/ SearchKeyword(AppRequest)
    \/ SearchKeywordRaises(AppRequest)
    \/ BuildResults(AppRequest)

\* The steps the script and the handler take by themselves once the question
\* is classified.
PRun ==
    \/ PostDirect
    \/ DirectSearchRaises
    \/ DirectReply
    \/ DirectReplyError
    \/ Summarize
    \/ SummarizeRaises
    \/ Extract
    \/ ExtractRaises
    \/ PostResearch
    \/ ResearchSearchRaises
    \/ ResearchReply
    \/ ResearchReplyError
    \/ Synthesize
    \/ SynthesizeRaises
    \/ Serve

PNext ==
    \/ Ask
    \/ ClearHistory
    \/ ChangeModel
    \/ Classify
    \/ PostDirect
    \/ DirectSearchRaises
    \/ DirectReply
    \/ DirectReplyError
    \/ Summarize
    \/ SummarizeRaises
    \/ Extract
    \/ ExtractRaises
    \/ PostResearch
    \/ ResearchSearchRaises
    \/ ResearchReply
    \/ ResearchReplyError
    \/ Synthesize
    \/ SynthesizeRaises
    \/ Serve

-----------------------------------------------------------------------------
(* Questions for the detector alone, put together from short pieces.       *)

Tokens == {
    <<"U","S">>, <<"k","r">>, <<"7">>, <<"1","2","3","4">>,
    <<"-">>, <<"A">>, <<"!">> }

RECURSIVE Flatten(_)
Flatten(pieces) == IF pieces = <<>> THEN <<>> ELSE Head(pieces) \o Flatten(Tail(pieces))

\* The example of the routing rule: "Summarize US20230012345A1".
ExampleQuestion ==
    <<"S","u","m","m","a","r","i","z","e"," ",
      "U","S","2","0","2","3","0","0","1","2","3","4","5","A","1">>

ExampleNumber == <<"U","S","2","0","2","3","0","0","1","2","3","4","5","A","1">>

DetectorQuestions ==
    {Flatten(pieces) : pieces \in SeqsUpTo(Tokens, MaxTokens)} \cup {ExampleQuestion}

\* A question has been submitted and waits at line 112.
DInit ==
    /\ current_model = "gemini-2.5-pro"
    /\ user_question \in DetectorQuestions
    /\ messages = <<Turn("user", user_question)>>
    /\ apc = "classify"
    /\ patent_number = None
    /\ keyword_list = <<>>
    /\ retrieved_data = <<>>
    /\ shown = NothingShown
    /\ calls = <<>>
    /\ detections = 0

-----------------------------------------------------------------------------
(* Document lists for the context assembly alone (lines 155-158).          *)

MaxDocs == 2

\* Stored paths as the search service reports them; 'N/A' is what it reports
\* for a document without one (db_api_server_agent.py, line 70).
ContextSources == {
    <<"x", "/", "a">>,
    <<"y", "/", "a">>,
    <<"N", "/", "A">>,
    <<"x", "/", "n", "\n">> }

\* Page contents: plain, empty, ending in a blank line, quoting a source
\* line, ending as a source line does.
ContextContents == {
    <<"c", "a">>,
    <<>>,
    <<"a", "\n", "\n">>,
    <<"-","-","-"," ","S","o","u","r","c","e",":"," ","q"," ","-","-","-","\n","z">>,
    <<"z","-","-","-"," ","S","o","u","r","c","e",":"," ","q"," ","-","-","-">> }

ContextDocs ==
    {[page_content |-> c, metadata |-> [source |-> s]] :
        c \in ContextContents, s \in ContextSources}

ContextQuestion == <<"d", "r", "a", "m">>

\* A research question whose search has returned documents waits at line 155.
FInit ==
    /\ current_model = "gemini-2.5-pro"
    /\ user_question = ContextQuestion
    /\ messages = <<Turn("user", user_question)>>
    /\ apc = "synthesize"
    /\ patent_number = None
    /\ keyword_list = <<KwDram>>
    /\ retrieved_data \in SeqsUpTo(ContextDocs, MaxDocs) \ {<<>>}
    /\ shown = NothingShown
    /\ calls = <<CompletionCall("KEYWORD_EXTRACTION_PROMPT",
                                [question |-> user_question], Returned(KwDram)),
                 SearchCall(ResearchPayload(keyword_list),
                            Returned([documents |-> retrieved_data]))>>
    /\ detections = 1

-----------------------------------------------------------------------------
(* Specifications.                                                         *)

\* The search server, serving its requests concurrently.
Init == SInit /\ AInit
Spec == Init /\ [][SNext]_vars

\* One session of the app.
AppSpec == Init /\ [][ANext]_vars

\* The detector on generated questions.
DetectInit == SInit /\ DInit
DetectSpec == DetectInit /\ [][Classify]_vars

\* The context assembly on generated document lists.
FormatInit == SInit /\ FInit
FormatNext == Synthesize \/ SynthesizeRaises
FormatSpec == FormatInit /\ [][FormatNext]_vars

\* One session of the app, its requests served by the server.
PipelineInit == PInit /\ AInit
PipelineSpec == PipelineInit /\ [][PNext]_vars

\* Where the script and the handler stand; every step of theirs changes it.
pcs == <<apc, rpc, kwi>>

\* Weak fairness of Classify, written out: Classify is enabled exactly when
\* apc = "classify".
ClassifyFairness == []<>(apc # "classify") \/ []<><<Classify>>_pcs

\* The same, the script and the handler running on whenever they can: every
\* external call returns or fails.
PipelineFairSpec ==
    PipelineInit /\ [][PNext]_vars /\ ClassifyFairness /\ WF_pcs(PRun)

-----------------------------------------------------------------------------
(* Properties of search_by_keywords.                                       *)

Answered(r) == rpc[r] = "done" /\ response[r].status_code = 200

SourceOf(doc) == MetadataGet(doc.metadata, "source")

\* The per-keyword result lists, concatenated in keyword order.
RECURSIVE Concatenated(_, _)
Concatenated(keywords, k) ==
    IF keywords = <<>> THEN <<>>
    ELSE RetrieverInvoke(Head(keywords), k) \o Concatenated(Tail(keywords), k)

\* The elements of s whose source no earlier element of s has, in order.
RECURSIVE FirstOccurrences(_, _)
FirstOccurrences(s, n) ==
    IF n = 0 THEN <<>>
    ELSE IF \E j \in 1..(n - 1) : SourceOf(s[j]) = SourceOf(s[n])
         THEN FirstOccurrences(s, n - 1)
         ELSE Append(FirstOccurrences(s, n - 1), s[n])

\* The order-preserving, deduplicated union of the keywords' result lists.
OrderedUnion(keywords, k) ==
    LET all == Concatenated(keywords, k) IN FirstOccurrences(all, Len(all))

\* C1: a request with a non-empty keyword list on a loaded index is answered
\* with exactly the order-preserving union of the per-keyword result lists.
C1_ReturnsOrderedUnion ==
    \A r \in Requests :
        (Answered(r) /\ request[r].keywords # <<>>) =>
            response[r].documents =
                ToResults(OrderedUnion(request[r].keywords, request[r].k_per_keyword))

\* C2: the returned list holds no two documents with the same source, and the
\* document kept for a source is the first one met in keyword order.
C2_DedupFirstWins ==
    \A r \in Requests :
        Answered(r) =>
            LET docs == response[r].documents
                all == Concatenated(request[r].keywords, request[r].k_per_keyword)
            IN /\ \A i, j \in 1..Len(docs) :
                      SourceOf(docs[i]) = SourceOf(docs[j]) => i = j
               /\ \A i \in 1..Len(docs) :
                      \E n \in 1..Len(all) :
                          /\ docs[i] = ToResults(all)[n]
                          /\ \A m \in 1..(n - 1) : SourceOf(all[m]) # SourceOf(all[n])

\* C3: every document returned for a keyword list K is also returned for K
\* followed by one more keyword (same index, same cap).
C3_Monotone ==
    \A r, q \in Requests :
        ( /\ Answered(r) /\ Answered(q)
          /\ request[q].db_id = request[r].db_id
          /\ request[q].k_per_keyword = request[r].k_per_keyword
          /\ \E w \in Keywords : request[q].keywords = Append(request[r].keywords, w) )
        => Range(response[r].documents) \subseteq Range(response[q].documents)

\* C7: the number of documents returned is at most len(keywords) * k_per_keyword.
C7_Bound ==
    \A r \in Requests :
        Answered(r) =>
            Len(response[r].documents)
                <= Len(request[r].keywords) * request[r].k_per_keyword

\* A request of two keywords answered with as many documents as its cap allows.
C7_Witness ==
    \E r \in Requests :
        /\ Answered(r)
        /\ Len(request[r].keywords) = 2
        /\ Len(response[r].documents) = request[r].k_per_keyword
        /\ Len(response[r].documents) > 1

\* C8: two answered invocations with the same keyword list, cap and index
\* return the same documents in the same order.
C8_Deterministic ==
    \A r, q \in Requests :
        (Answered(r) /\ Answered(q) /\ request[r] = request[q]) =>
            response[r].documents = response[q].documents

\* Two answered invocations of one multi-keyword request that found documents.
C8_Witness ==
    \E r, q \in Requests :
        /\ r # q
        /\ Answered(r) /\ Answered(q)
        /\ request[r] = request[q]
        /\ Len(request[r].keywords) = 2
        /\ request[r].keywords[1] # request[r].keywords[2]
        /\ response[r].documents # <<>>

\* C9: an unloaded index is answered 404 before any similarity search; a
\* raising similarity search is answered 500; a request none of whose searches
\* raised, also one that finds nothing, is answered 200.
C9_ErrorContract ==
    \A r \in Requests :
        rpc[r] = "done" =>
            /\ (request[r].db_id \notin available_dbs) =>
                   (response[r].status_code = 404 /\ invocations[r] = <<>>)
            /\ (request[r].db_id \in available_dbs) =>
                   /\ response[r].status_code \in {200, 500}
                   /\ response[r].status_code = 500 <=>
                          Len(invocations[r]) > kwi[r]


-----------------------------------------------------------------------------
(* Properties of the question pipeline.                                    *)

SearchCalls == SelectSeq(calls, LAMBDA c : c.service = "search")
CompletionCalls == SelectSeq(calls, LAMBDA c : c.service = "completion")
ExtractionCalls ==
    SelectSeq(calls, LAMBDA c : c.service = "completion"
                                /\ c.template = "KEYWORD_EXTRACTION_PROMPT")

\* The question of the current run has been classified.
Classified == messages # <<>> /\ apc # "classify"

\* C4: the search service is never called with an empty keyword list; an
\* empty extraction ends the run before any search request.
C4_NoSearchWithoutKeywords ==
    \A i \in 1..Len(calls) :
        calls[i].service = "search" => calls[i].payload.keywords # <<>>

\* C5: the mode is decided once per question by the detector. With a number
\* detected, the one search request carries [number] and k_per_keyword 1 and
\* the extractor is never called; with none, the extractor is called once and
\* the one search request carries the extracted keywords and the default cap.
C5_Routing ==
    /\ detections <= 1
    /\ Classified =>
          /\ detections = 1
          /\ patent_number = PatentNumberSearch(user_question)
          /\ Len(SearchCalls) <= 1
    /\ (Classified /\ patent_number # None) =>
          /\ apc \in {"direct_search", "summarize", "idle"}
          /\ ExtractionCalls = <<>>
          /\ \A i \in 1..Len(CompletionCalls) :
                 CompletionCalls[i].template = "SINGLE_DOC_SUMMARY_PROMPT"
          /\ apc # "direct_search" => Len(SearchCalls) = 1
          /\ \A i \in 1..Len(SearchCalls) :
                 /\ ParseSearchRequest(SearchCalls[i].payload).keywords = <<patent_number>>
                 /\ ParseSearchRequest(SearchCalls[i].payload).k_per_keyword = 1
    /\ (Classified /\ patent_number = None) =>
          /\ apc \in {"extract", "research_search", "synthesize", "idle"}
          /\ Len(ExtractionCalls) = (IF apc = "extract" THEN 0 ELSE 1)
          /\ \A i \in 1..Len(CompletionCalls) :
                 CompletionCalls[i].template # "SINGLE_DOC_SUMMARY_PROMPT"
          /\ \A i \in 1..Len(calls) :
                 calls[i].service = "search" =>
                     /\ i = 2
                     /\ calls[1] = ExtractionCalls[1]
                     /\ "returned" \in DOMAIN calls[1].result
                     /\ ParseSearchRequest(calls[i].payload).keywords
                            = ParseKeywords(calls[1].result.returned)
                     /\ ParseSearchRequest(calls[i].payload).k_per_keyword = 5

\* A direct lookup whose search request has been sent.
C5_Witness ==
    /\ Classified
    /\ patent_number # None
    /\ Len(SearchCalls) = 1
    /\ SearchCalls[1].payload.keywords = <<patent_number>>

\* C6: in direct lookup an empty documents list ends the run with the
\* not-found message naming the detected number, no completion call and no
\* assistant turn; otherwise the summary is made from the first document only.
C6_DirectLookup ==
    (Classified /\ patent_number # None) =>
        \A i \in 1..Len(calls) :
            (calls[i].service = "search" /\ "returned" \in DOMAIN calls[i].result) =>
                LET body == calls[i].result.returned
                    documents == IF "documents" \in DOMAIN body
                                 THEN body.documents ELSE <<>>
                IN IF documents = <<>>
                   THEN /\ apc = "idle"
                        /\ shown.widget = "error"
                        /\ shown.template = "patent_not_found"
                        /\ shown.arg = patent_number
                        /\ CompletionCalls = <<>>
                        /\ messages[Len(messages)].role = "user"
                   ELSE /\ Len(CompletionCalls) = (IF apc = "summarize" THEN 0 ELSE 1)
                        /\ \A j \in 1..Len(CompletionCalls) :
                               /\ CompletionCalls[j].template = "SINGLE_DOC_SUMMARY_PROMPT"
                               /\ CompletionCalls[j].input
                                      = [context |-> documents[1].page_content]

\* A direct lookup that ended not found.
C6_Witness ==
    /\ patent_number # None
    /\ apc = "idle"
    /\ shown.widget = "error"
    /\ shown.template = "patent_not_found"
    /\ calls # <<>>
    /\ "returned" \in DOMAIN calls[1].result
    /\ calls[1].result.returned = [documents |-> <<>>]

-----------------------------------------------------------------------------
(* Properties of the patent-number detector.                               *)

PrefixSpellings ==
    {<<a, b>> : a \in {"U", "u"}, b \in {"S", "s"}} \cup
    {<<a, b>> : a \in {"K", "k"}, b \in {"R", "r"}} \cup
    {<<a, b>> : a \in {"C", "c"}, b \in {"N", "n"}} \cup
    {<<a, b>> : a \in {"J", "j"}, b \in {"P", "p"}} \cup
    {<<a, b>> : a \in {"E", "e"}, b \in {"P", "p"}}

DigitChars == {"0","1","2","3","4","5","6","7","8","9"}
SeparatorChars == {" ", "\t", "\n", ".", "-"}

DigitsAt(s, p, n) == p + n - 1 <= Len(s) /\ \A j \in p..(p + n - 1) : s[j] \in DigitChars

SeparatorAt(s, p) == p <= Len(s) /\ s[p] \in SeparatorChars

\* A prefix at position i, an optional separator, then n digits; p is the
\* position of the first digit.
PrefixThenDigits(s, i, p, n) ==
    /\ i + 1 <= Len(s) /\ <<s[i], s[i + 1]>> \in PrefixSpellings
    /\ p = i + 2 \/ (p = i + 3 /\ SeparatorAt(s, i + 2))
    /\ DigitsAt(s, p, n)

\* The claim's condition: a prefix followed by four or more digits.
FourDigitNumberAt(s, i) == \E p \in {i + 2, i + 3} : PrefixThenDigits(s, i, p, 4)

\* The pattern's condition: a prefix followed by four or more digits and then,
\* after at most one separator, at least one more digit.
NumberAt(s, i) ==
    \E p \in {i + 2, i + 3} : \E n \in 4..Len(s) :
        /\ PrefixThenDigits(s, i, p, n)
        /\ \/ DigitsAt(s, p + n, 1)
           \/ SeparatorAt(s, p + n) /\ DigitsAt(s, p + n + 1, 1)

\* C10, as claimed: the detector finds a number exactly in the questions that
\* hold a prefix followed by four or more digits.
C10_FourDigitsSuffice ==
    Classified =>
        (patent_number # None <=>
            \E i \in 1..Len(user_question) : FourDigitNumberAt(user_question, i))

\* C10, amended: the detector finds a number exactly in the questions that hold
\* a prefix (any case), an optional separator, four or more digits and, after
\* at most one more separator, at least one further digit; what it returns
\* starts at the leftmost such place and runs to the end of the letters and
\* digits that follow; the example question yields US20230012345A1.
C10_Detector ==
    Classified =>
        LET s == user_question
            places == {i \in 1..Len(s) : NumberAt(s, i)}
        IN /\ patent_number # None <=> places # {}
           /\ patent_number # None =>
                 \E i \in places : \E e \in i..Len(s) :
                     /\ \A j \in places : i <= j
                     /\ patent_number = SubSeq(s, i, e)
                     /\ e >= i + 6
                     /\ e = Len(s) \/ ~(s[e + 1] \in DigitChars
                                        \/ FoldCase(s[e + 1]) \in Range(UpperCase))
           /\ s = ExampleQuestion => patent_number = ExampleNumber

\* A lower-case number with separators detected in the middle of a question.
C10_Witness ==
    /\ Classified
    /\ patent_number # None
    /\ patent_number[1] = "k"
    /\ user_question[1] # "k"
    /\ \E j \in 1..Len(patent_number) : patent_number[j] = "-"
    /\ Len(patent_number) < Len(user_question) - 1


-----------------------------------------------------------------------------
(* Properties of the context assembly.                                     *)

\* The delimiter line "--- Source: <name> ---" and the blank line between
\* blocks, as the format is documented.
DelimiterOpen == <<"-", "-", "-", " ", "S", "o", "u", "r", "c", "e", ":", " ">>
DelimiterClose == <<" ", "-", "-", "-", "\n">>
BlankLine == <<"\n", "\n">>

OccursAt(pattern, text, p) ==
    /\ p >= 1
    /\ p + Len(pattern) - 1 <= Len(text)
    /\ SubSeq(text, p, p + Len(pattern) - 1) = pattern

\* The first place at or after from where pattern occurs in text, 0 if none.
FirstAt(pattern, text, from) ==
    LET places == {p \in from..Len(text) : OccursAt(pattern, text, p)}
    IN  IF places = {} THEN 0
        ELSE CHOOSE p \in places : \A q \in places : p <= q

\* Where the delimiter opening at p closes: the name lies on one line.
CloseOf(text, p) ==
    LET q == FirstAt(DelimiterClose, text, p + Len(DelimiterOpen))
    IN  IF /\ OccursAt(DelimiterOpen, text, p)
           /\ q # 0
           /\ \A i \in (p + Len(DelimiterOpen))..(q - 1) : text[i] # "\n"
        THEN q ELSE 0

\* The first delimiter line at or after from, 0 if none.
NextDelimiter(text, from) ==
    LET places == {p \in from..Len(text) : CloseOf(text, p) # 0}
    IN  IF places = {} THEN 0
        ELSE CHOOSE p \in places : \A q \in places : p <= q

\* The text split on its delimiter lines, from the delimiter line at p on:
\* each name with the text up to the next delimiter line.
RECURSIVE SplitOnDelimiter(_, _)
SplitOnDelimiter(text, p) ==
    IF p = 0 THEN <<>>
    ELSE LET q    == CloseOf(text, p)
             from == q + Len(DelimiterClose)
             nxt  == NextDelimiter(text, from)
             to   == IF nxt = 0 THEN Len(text) ELSE nxt - 1
         IN  <<[name |-> SubSeq(text, p + Len(DelimiterOpen), q - 1),
                piece |-> SubSeq(text, from, to)]>>
             \o SplitOnDelimiter(text, nxt)

EndsWith(text, suffix) ==
    /\ Len(suffix) <= Len(text)
    /\ SubSeq(text, Len(text) - Len(suffix) + 1, Len(text)) = suffix

\* What follows the last slash of a stored path.
NameOfPath(path) ==
    LET slashes == {i \in 1..Len(path) : path[i] = "/"}
        last    == IF slashes = {} THEN 0
                   ELSE CHOOSE i \in slashes : \A j \in slashes : j <= i
    IN  SubSeq(path, last + 1, Len(path))

\* The text splits back into the documents: it starts with a delimiter line,
\* has one block per document, in order, each block made of the document's
\* name and content, each but the last followed by a blank line.
SplitsBackTo(text, docs) ==
    LET blocks == SplitOnDelimiter(text, NextDelimiter(text, 1))
    IN  /\ NextDelimiter(text, 1) = 1
        /\ Len(blocks) = Len(docs)
        /\ \A i \in 1..Len(blocks) :
              /\ blocks[i].name = NameOfPath(docs[i].metadata.source)
              /\ blocks[i].piece =
                    IF i < Len(docs) THEN docs[i].page_content \o BlankLine
                    ELSE docs[i].page_content

\* The context a final-answer call of the run was given.
ContextsSent ==
    {calls[i].input.context :
        i \in {j \in 1..Len(calls) : /\ calls[j].service = "completion"
                                     /\ calls[j].template = "FINAL_ANSWER_PROMPT"}}

Contains(text, pattern) == FirstAt(pattern, text, 1) # 0

\* No content quotes the opening of a delimiter line, no name has a line break.
PlainDocs(docs) ==
    \A i \in 1..Len(docs) :
        /\ ~Contains(docs[i].page_content, DelimiterOpen)
        /\ ~Contains(NameOfPath(docs[i].metadata.source), <<"\n">>)

\* C11 as stated: for every document list, the assembled context splits back
\* on the delimiter into exactly the original (basename, content) pairs, in
\* order, one block per document, the blocks separated by a blank line.
C11_RoundTripAlways ==
    \A context \in ContextsSent : SplitsBackTo(context, retrieved_data)

\* C11: for every document list in which no content contains the text
\* "--- Source: " and no source basename contains a line break, the
\* assembled context splits back on the delimiter into exactly the original
\* (basename, content) pairs, in order, one block per document, the blocks
\* separated by a blank line.
C11_RoundTrip ==
    PlainDocs(retrieved_data) =>
        \A context \in ContextsSent : SplitsBackTo(context, retrieved_data)

\* Two plain documents of one basename, the first ending in a blank line,
\* have been assembled and sent.
C11_Witness ==
    /\ ContextsSent # {}
    /\ PlainDocs(retrieved_data)
    /\ Len(retrieved_data) = 2
    /\ EndsWith(retrieved_data[1].page_content, BlankLine)
    /\ NameOfPath(retrieved_data[1].metadata.source)
          = NameOfPath(retrieved_data[2].metadata.source)

-----------------------------------------------------------------------------
(* Properties of the app and the server together.                          *)

\* The run of the current question is over.
RunOver == detections = 1 /\ apc = "idle"

\* No call of the run raised.
NoServiceFailed == \A i \in 1..Len(calls) : "raised" \notin DOMAIN calls[i].result

\* The run took the research path.
ResearchRun == detections = 1 /\ patent_number = None

\* The run ended with an answer shown and recorded.
EndedAnswered ==
    /\ shown.widget = "markdown"
    /\ messages[Len(messages)] = Turn("assistant", shown.arg)

-----------------------------------------------------------------------------
(* Properties of the deduplication key.                                    *)

\* The source identifier of a result: the basename of its stored path.
SourceIdentifier(doc) == NameOfPath(doc.metadata.source)

\* The elements of s whose source identifier no earlier element has, in order.
RECURSIVE FirstOfIdentifier(_, _)
FirstOfIdentifier(s, n) ==
    IF n = 0 THEN <<>>
    ELSE IF \E j \in 1..(n - 1) : SourceIdentifier(s[j]) = SourceIdentifier(s[n])
         THEN FirstOfIdentifier(s, n - 1)
         ELSE Append(FirstOfIdentifier(s, n - 1), s[n])

\* C13: results are the same document exactly when their stored paths have
\* the same basename: of the results retrieved for a request, the first of
\* each basename is returned and no other, whatever the contents.
C13_DedupByBasename ==
    \A r \in Requests :
        (Answered(r) /\ request[r].keywords # <<>>) =>
            LET all == Concatenated(request[r].keywords, request[r].k_per_keyword)
            IN  response[r].documents = ToResults(FirstOfIdentifier(all, Len(all)))


-----------------------------------------------------------------------------
(* Properties of a run's failures.                                         *)

HasRaised(call) == "raised" \in DOMAIN call.result

\* C14: a call that raised is the last call of its run (nothing is called
\* after it and it is not tried again), the run is over with the exception's
\* message shown, the server holds no request of the session, and no
\* assistant answer is shown or recorded: the history ends with the question.
C14_ExceptionEndsRun ==
    \A i \in 1..Len(calls) :
        HasRaised(calls[i]) =>
            /\ i = Len(calls)
            /\ apc = "idle"
            /\ rpc[AppRequest] = "idle"
            /\ shown = AgentError(calls[i].result.raised)
            /\ messages # <<>>
            /\ messages[Len(messages)] = Turn("user", user_question)

\* The final completion raised after the extraction and the search returned,
\* in the second question of a session whose first was answered.
C14_Witness ==
    /\ Len(calls) = 3
    /\ HasRaised(calls[3])
    /\ calls[3].service = "completion"
    /\ ~HasRaised(calls[2])
    /\ Len(messages) = 3
    /\ messages[2].role = "assistant"


-----------------------------------------------------------------------------
(* Properties of a failing batch.                                          *)

\* The similarity search of request r raised: the keyword was looked up but
\* the loop did not advance over it.
SearchRaised(r) == rpc[r] = "done" /\ Len(invocations[r]) > kwi[r]

\* C15: when the similarity search of a keyword raises, the request is
\* answered with an error and no documents, whatever earlier keywords had
\* accumulated, and the keywords searched are a prefix of the list, each
\* searched once.
C15_NoPartialResults ==
    \A r \in Requests :
        SearchRaised(r) =>
            /\ response[r].status_code = 500
            /\ "documents" \notin DOMAIN response[r]
            /\ Len(invocations[r]) = kwi[r] + 1
            /\ invocations[r] = SubSeq(request[r].keywords, 1, kwi[r] + 1)

\* The search of the second keyword raised after the first had accumulated
\* documents.
C15_Witness ==
    \E r \in Requests :
        /\ SearchRaised(r)
        /\ kwi[r] = 1
        /\ all_retrieved_docs[r] # <<>>

-----------------------------------------------------------------------------
(* Properties of the order of a run's steps.                               *)

IsExtraction(call) ==
    call.service = "completion" /\ call.template = "KEYWORD_EXTRACTION_PROMPT"
IsSynthesis(call) ==
    call.service = "completion" /\ call.template = "FINAL_ANSWER_PROMPT"

\* Nothing of a run happens before its detection.
DetectionFirst ==
    (detections = 0) =>
        /\ calls = <<>>
        /\ rpc[AppRequest] = "idle"
        /\ keyword_list = <<>>
        /\ retrieved_data = <<>>

\* The research request is at the server only after the extraction call has
\* returned, and carries the keywords parsed from its completion; it is the
\* run's only search request.
ExtractionBeforeSearch ==
    /\ (ResearchRun /\ rpc[AppRequest] # "idle") =>
          /\ Len(calls) = 1
          /\ IsExtraction(calls[1])
          /\ ~HasRaised(calls[1])
          /\ request[AppRequest].keywords = ParseKeywords(calls[1].result.returned)
    /\ \A i \in 1..Len(calls) :
          (ResearchRun /\ calls[i].service = "search") =>
              /\ i = 2
              /\ IsExtraction(calls[1])
              /\ ~HasRaised(calls[1])
              /\ rpc[AppRequest] = "idle"

\* The synthesis call comes after a search response with documents.
SearchBeforeSynthesis ==
    \A i \in 1..Len(calls) :
        IsSynthesis(calls[i]) =>
            /\ i = 3
            /\ calls[2].service = "search"
            /\ ~HasRaised(calls[2])
            /\ GetDocuments(calls[2].result.returned) # <<>>
            /\ rpc[AppRequest] = "idle"

\* Inside the handler: one similarity search per keyword, in list order, the
\* results of each merged before the next is issued.
OneSearchPerKeywordInOrder ==
    \A r \in Requests :
        /\ invocations[r] = SubSeq(request[r].keywords, 1, Len(invocations[r]))
        /\ (rpc[r] = "loop") =>
              /\ Len(invocations[r]) = kwi[r]
              /\ all_retrieved_docs[r] =
                    OrderedUnion(invocations[r], request[r].k_per_keyword)
        /\ (Answered(r) /\ request[r].keywords # <<>>) =>
              invocations[r] = request[r].keywords

\* C16: the steps of one question are strictly sequential: detection before
\* everything, the extraction call returned before the single search request
\* is sent, the synthesis call only after a search response with documents,
\* and inside search_by_keywords one similarity search per keyword, in list
\* order, each merged before the next.
C16_StrictSequencing ==
    /\ DetectionFirst
    /\ ExtractionBeforeSearch
    /\ SearchBeforeSynthesis
    /\ OneSearchPerKeywordInOrder

\* The handler is between the two keywords of a research request: the first
\* keyword's results are merged, the second is not yet searched, and the app
\* has made the extraction call only.
C16_Witness ==
    /\ ResearchRun
    /\ apc = "research_wait"
    /\ rpc[AppRequest] = "loop"
    /\ Len(request[AppRequest].keywords) = 2
    /\ kwi[AppRequest] = 1
    /\ all_retrieved_docs[AppRequest] # <<>>
    /\ Len(calls) = 1

-----------------------------------------------------------------------------
(* Properties of concurrent requests.                                      *)

\* The response to a request served alone: not found, or the failure of a
\* similarity search, or the handler's result for the keyword list.
SoloResponse(req, raised) ==
    IF req.db_id \notin available_dbs THEN HTTPException(404, "db_not_found")
    ELSE IF raised THEN HTTPException(500, "retriever_error")
    ELSE IF req.keywords = <<>> THEN HTTPException(500, "NameError")
    ELSE Ok(ToResults(RetrieverInvoke(req.keywords[Len(req.keywords)],
                                      req.k_per_keyword)))

\* The accumulator and the seen-set of a request served alone, after the
\* keywords it has searched.
SoloAccumulator(r) == OrderedUnion(invocations[r], request[r].k_per_keyword)
SoloSeen(r) == {SourceOf(SoloAccumulator(r)[i]) : i \in 1..Len(SoloAccumulator(r))}

NotInterfered ==
    \A r \in Requests :
        /\ (rpc[r] = "done") =>
              response[r] = SoloResponse(request[r], SearchRaised(r))
        /\ (rpc[r] = "loop") =>
              /\ all_retrieved_docs[r] = SoloAccumulator(r)
              /\ unique_doc_sources[r] = SoloSeen(r)
        /\ (rpc[r] \in {"idle", "check"}) =>
              /\ all_retrieved_docs[r] = <<>>
              /\ unique_doc_sources[r] = {}
              /\ response[r] = NoResponse

\* C17: under every interleaving of the requests, each request's response
\* is the one it gets when served alone, its accumulator and seen-set hold
\* its own results only, and no step writes the table of loaded indexes.
C17_NoInterference ==
    /\ []NotInterfered
    /\ [][available_dbs' = available_dbs]_vars

\* Two requests in flight at once: one answered from its second keyword
\* while the other, with another keyword, is still in its loop.
C17_Witness ==
    \E r, o \in Requests :
        /\ r # o
        /\ Answered(r)
        /\ kwi[r] = 2
        /\ rpc[o] = "loop"
        /\ kwi[o] = 1
        /\ retrieved_docs[o] # retrieved_docs[r]
        /\ all_retrieved_docs[o] # all_retrieved_docs[r]

-----------------------------------------------------------------------------
(* Properties of a run's end.                                              *)

LastTurnIsQuestion ==
    messages # <<>> /\ messages[Len(messages)] = Turn("user", user_question)

EndedNotFound ==
    /\ shown \in {NotFound(patent_number), NoDocuments}
    /\ LastTurnIsQuestion

EndedFailed ==
    /\ shown.widget = "error"
    /\ shown.template = "agent_error"
    /\ LastTurnIsQuestion

OutcomesReported ==
    (IF EndedAnswered THEN 1 ELSE 0) + (IF EndedNotFound THEN 1 ELSE 0)
        + (IF EndedFailed THEN 1 ELSE 0)

\* C18: a question that has entered the pipeline reaches the end of its
\* run, every external call returning or failing; until then nothing is
\* reported, and at the end exactly one of Answered, NotFound /
\* no-relevant-documents and Failed is.
C18_OneOutcome ==
    /\ (apc # "idle") ~> RunOver
    /\ []((apc # "idle") => (shown = NothingShown /\ LastTurnIsQuestion))
    /\ [](RunOver => OutcomesReported = 1)

\* A research run that went to the server and back has ended with "no
\* relevant documents".
C18_Witness ==
    /\ RunOver
    /\ EndedNotFound
    /\ shown = NoDocuments
    /\ Len(calls) = 2
    /\ ~HasRaised(calls[2])

-----------------------------------------------------------------------------
(* Properties of a run's inputs.                                           *)

\* What the services replied in the run, call by call.
Replies == [i \in 1..Len(calls) |-> calls[i].result]

\* The calls a run makes, given its question and the replies alone.
CallsFrom(question, replies) ==
    LET number == PatentNumberSearch(question)
        call(i) ==
            IF number # None
            THEN IF i = 1
                 THEN SearchCall(DirectLookupPayload(number), replies[1])
                 ELSE CompletionCall("SINGLE_DOC_SUMMARY_PROMPT",
                          [context |-> GetDocuments(replies[1].returned)[1].page_content],
                          replies[2])
            ELSE IF i = 1
                 THEN CompletionCall("KEYWORD_EXTRACTION_PROMPT",
                          [question |-> question], replies[1])
                 ELSE IF i = 2
                      THEN SearchCall(ResearchPayload(ParseKeywords(replies[1].returned)),
                                      replies[2])
                      ELSE CompletionCall("FINAL_ANSWER_PROMPT",
                               [context |-> format_docs(GetDocuments(replies[2].returned)),
                                question |-> question],
                               replies[3])
    IN  [i \in 1..Len(replies) |-> call(i)]

\* The outcome a finished run reports, given its question and the replies alone.
OutcomeFrom(question, replies) ==
    LET number == PatentNumberSearch(question)
        n      == Len(replies)
    IN  IF "raised" \in DOMAIN replies[n] THEN AgentError(replies[n].raised)
        ELSE IF number # None
             THEN IF n = 1 THEN NotFound(number) ELSE Markdown(replies[2].returned)
             ELSE IF n = 2 THEN NoDocuments ELSE Markdown(replies[3].returned)

\* C19: the mode, the requests issued and the outcome of the current
\* question are determined by the question's text, the configuration and
\* the services' replies, whatever the conversation history holds.
C19_Stateless ==
    (detections = 1) =>
        /\ patent_number = PatentNumberSearch(user_question)
        /\ calls = CallsFrom(user_question, Replies)
        /\ (apc = "idle") => (shown = OutcomeFrom(user_question, Replies))

\* The question that was answered before is asked again and ends with "no
\* relevant documents": same text, a different reply, the first run on record.
C19_Witness ==
    /\ RunOver
    /\ Len(messages) = 3
    /\ messages[1] = Turn("user", user_question)
    /\ messages[2].role = "assistant"
    /\ shown = NoDocuments
    /\ Len(calls) = 2

-----------------------------------------------------------------------------
(* Properties of the conversation history.                                 *)

AssistantTurns == Len(SelectSeq(messages, LAMBDA m : m.role = "assistant"))

\* Every assistant turn directly follows a user turn, so there is at most
\* one per user turn; a run that is not over, or ended without an answer,
\* leaves its question last in the history, and an answered one its answer.
HistoryWellFormed ==
    /\ \A i \in 1..Len(messages) :
          messages[i].role = "assistant" =>
              (i > 1 /\ messages[i - 1].role = "user")
    /\ AssistantTurns <= UserTurns
    /\ (detections = 1 \/ apc # "idle") =>
          IF RunOver /\ shown.widget = "markdown"
          THEN /\ Len(messages) >= 2
               /\ messages[Len(messages)] = Turn("assistant", shown.arg)
               /\ messages[Len(messages) - 1] = Turn("user", user_question)
          ELSE LastTurnIsQuestion

\* A question is submitted in this step.
Submitted == apc = "idle" /\ apc' = "classify"

\* A run ends in this step.
RunEnds == apc # "idle" /\ apc' = "idle"

\* What a step does to the history: a submitted question appends exactly
\* one user turn; the end of a run appends one assistant turn if and only if
\* it ends Answered; no other step adds a turn.
HistoryStep ==
    /\ Submitted => (messages' = Append(messages, Turn("user", user_question')))
    /\ RunEnds =>
          IF shown'.widget = "markdown"
          THEN messages' = Append(messages, Turn("assistant", shown'.arg))
          ELSE messages' = messages
    /\ (~Submitted /\ ~RunEnds) => (messages' = messages \/ messages' = <<>>)

\* C20: every submitted question appends exactly one user turn and an
\* assistant turn is appended if and only if the run ends Answered; hence
\* the history has at most one assistant turn per user turn, each directly
\* after its user turn, and a run that ends NotFound or Failed leaves its
\* question without a reply.
C20_History ==
    /\ []HistoryWellFormed
    /\ [][HistoryStep]_vars

\* A second question has failed after a first was answered: the history
\* holds two user turns and one assistant turn, the last turn unanswered.
C20_Witness ==
    /\ RunOver
    /\ EndedFailed
    /\ UserTurns = 2
    /\ AssistantTurns = 1
    /\ messages[2].role = "assistant"
=============================================================================
